---- MODULE Spec2Model ----
(***************************************************************************)
(* Model of gmh_3200.py: the GMHProtocol hardware protocol of the GMH 3200 *)
(* thermometer daemon.  The state is the shared dictionary obj, the        *)
(* command queue self.commands, and history variables: the number of       *)
(* request frames written to the serial link that no processed reply has   *)
(* answered yet (inflight), the frame written most recently (recent),      *)
(* whether the entry now at the head of the queue has been written since   *)
(* it was appended (head_sent), and a record of the last call (last),      *)
(* holding its input, what it sent, the exception that escaped it, its     *)
(* result and a snapshot of the state it started from.                     *)
(*                                                                         *)
(* Handlers: connectionMade, connectionLost, update (the periodic tick),   *)
(* processBinary (one binary reply delivered by the transport) and         *)
(* processMessage (one text reply).  The protocol sets _binary_length, so  *)
(* the replies of the device arrive through processBinary.                 *)
(***************************************************************************)
EXTENDS Integers, Sequences, FiniteSets, TLC

VARIABLES obj, commands, inflight, recent, head_sent, last

vars == <<obj, commands, inflight, recent, head_sent, last>>

(***************************************************************************)
(* Bounds of the model.                                                    *)
(***************************************************************************)
\* update's refill branch is cut off once the queue would exceed MaxQueue
MaxQueue == 6
\* update's send branch is cut off once MaxInFlight frames are unanswered
MaxInFlight == 3

(***************************************************************************)
(* Python values stored in obj["temperatureA"/"temperatureB"].  A float    *)
(* mantissa / 10**exponent is kept exactly as the pair (mant, exp).        *)
(***************************************************************************)
PyInt(n) == [kind |-> "int", mant |-> n, exp |-> 0]
PyFloat(m, e) == [kind |-> "float", mant |-> m, exp |-> e]
PyNone == [kind |-> "None", mant |-> 0, exp |-> 0]
PyStr(s) == [kind |-> s, mant |-> 0, exp |-> 0]

\* GMHProtocol._binary_length
binary_length == 9

\* GMHProtocol.status_commands: b"\xfe\x00\x3d", b"\xfd\x00\x02"
status_commands == << <<254, 0, 61>>, <<253, 0, 2>> >>

\* the queue entry update() builds for a status command
Entry(k) == [cmd |-> k, source |-> "itself", status |-> "status"]

\* an ERROR_CODES table whose entry for 16364 is missing
ERROR_CODES_get_without_16364(error_code) ==
    CASE error_code = 16352 -> "Measuring range overrun"
      [] error_code = 16353 -> "Measuring range underrun"
      [] error_code = 16362 -> "Calculation not possible"
      [] error_code = 16363 -> "System error"
      [] error_code = 16365 -> "Sensor defective"
      [] OTHER -> "Unknown hardware error"

\* GMHProtocol.ERROR_CODES.get(error_code, "Unknown hardware error")
ERROR_CODES_get(error_code) ==
    CASE error_code = 16352 -> "Measuring range overrun"
      [] error_code = 16353 -> "Measuring range underrun"
      [] error_code = 16362 -> "Calculation not possible"
      [] error_code = 16363 -> "System error"
      [] error_code = 16364 -> "Battery empty"
      [] error_code = 16365 -> "Sensor defective"
      [] OTHER -> "Unknown hardware error"

(***************************************************************************)
(* temp_decode, the undecorated body.  response is a sequence of bytes;    *)
(* Python's response[k] is response[k+1] here.  struct.unpack_from with    *)
(* ">BBxBBx" at offset 3 needs 6 bytes from offset 3, and raises           *)
(* struct.error on a shorter buffer.  ~b & 0xFF is 255 - b.  u32 itself    *)
(* can exceed 2^31, so payload = u32 & 0x07FFFFFF is computed as           *)
(* ((high_word & 0x7FF) << 16) | low_word, which is the same number.       *)
(* The result is [raised, msg, value]: the exception the body raises       *)
(* ("none" when it returns), its message, and the returned float.          *)
(***************************************************************************)
payload_of(response) ==
    LET b3 == response[4]
        b4 == response[5]
        b6 == response[7]
        b7 == response[8]
        high_word == ((255 - b3) * 256) + b4
        low_word == ((255 - b6) * 256) + b7
    IN  ((high_word % 2048) * 65536) + low_word

exponent_of(response) == ((255 - response[4]) \div 8) - 15

\* a decoding that sign-extends the payload but leaves out the + 0x02000000
temp_decode_without_offset(response) ==
    IF Len(response) < 3 + 6
    THEN [raised |-> "struct.error", msg |-> "", value |-> PyNone]
    ELSE LET payload == payload_of(response)
             exponent == exponent_of(response)
         IN  IF payload >= 125554432
             THEN LET error_code == payload - 33554432 - 100000000
                  IN  [raised |-> "GMHException",
                       msg |-> ERROR_CODES_get(error_code),
                       value |-> PyNone]
             ELSE LET signed == IF (payload \div 67108864) % 2 = 1
                                THEN payload - 134217728
                                ELSE payload
                  IN  [raised |-> "none", msg |-> "",
                       value |-> PyFloat(signed, exponent)]

temp_decode(response) ==
    IF Len(response) < 3 + 6
    THEN [raised |-> "struct.error", msg |-> "", value |-> PyNone]
    ELSE LET payload == payload_of(response)
             exponent == exponent_of(response)
         IN  IF payload >= 125554432
             THEN LET error_code == payload - 33554432 - 100000000
                  IN  [raised |-> "GMHException",
                       msg |-> ERROR_CODES_get(error_code),
                       value |-> PyNone]
             ELSE LET signed == IF (payload \div 67108864) % 2 = 1
                                THEN payload - 134217728
                                ELSE payload
                  IN  [raised |-> "none", msg |-> "",
                       value |-> PyFloat(signed + 33554432, exponent)]

(***************************************************************************)
(* crc.  ui_hilf stays below 2^16, so `ui_hilf & 0x8000` is                *)
(* ui_hilf >= 32768 and `& 0xFFFF` is % 65536.  0x700 is bits 8..10; the   *)
(* xor flips exactly those, turning the 3-bit field f into 7 - f.          *)
(***************************************************************************)
xor_0x700(x) ==
    LET f == (x \div 256) % 8
    IN  x - (f * 256) + ((7 - f) * 256)

\* a round whose polynomial is 0x300 instead of 0x700
crc_round_0x300(ui_hilf) ==
    IF ui_hilf >= 32768
    THEN LET x == ui_hilf * 2
             f == (x \div 256) % 4
         IN  (x - (f * 256) + ((3 - f) * 256)) % 65536
    ELSE (ui_hilf * 2) % 65536

crc_round(ui_hilf) ==
    IF ui_hilf >= 32768
    THEN xor_0x700(ui_hilf * 2) % 65536
    ELSE (ui_hilf * 2) % 65536

RECURSIVE crc_rounds(_, _)
crc_rounds(ui_hilf, n) ==
    IF n = 0 THEN ui_hilf ELSE crc_rounds(crc_round(ui_hilf), n - 1)

crc(byte1, byte2) ==
    LET ui_hilf == crc_rounds((byte1 * 256) + byte2, 16)
    IN  255 - (ui_hilf \div 256)

(***************************************************************************)
(* The @catch decorator of daemon.py around temp_decode: an exception      *)
(* raised by the body is caught and reported, and the call then yields     *)
(* None; otherwise the call yields the body's return value.                *)
(***************************************************************************)
catch_temp_decode(response) ==
    LET r == temp_decode(response)
    IN  IF r.raised = "none" THEN r.value ELSE PyNone

(***************************************************************************)
(* Reply frames the transport delivers in this model.                      *)
(***************************************************************************)
\* channel A (address 254), mantissa 235, exponent 1: 23.5
FrameA235 == <<254, 0, 0, 121, 0, 0, 255, 235, 0>>
\* channel B (address 253), mantissa -42, exponent 1: -4.2
FrameBm42 == <<253, 0, 0, 122, 255, 0, 0, 214, 0>>
\* address 252, which no status command polls; 23.5
FrameX235 == <<252, 0, 0, 121, 0, 0, 255, 235, 0>>
\* channel A, fault code 16364
FaultA16364 == <<254, 0, 0, 128, 246, 0, 223, 236, 0>>
\* channel B, fault code 99999 (not in ERROR_CODES)
FaultB99999 == <<253, 0, 0, 128, 247, 0, 152, 159, 0>>
\* address 252, fault code 16352
FaultX16352 == <<252, 0, 0, 128, 246, 0, 223, 224, 0>>
\* short frames: three bytes addressed to channel A, one byte of channel B,
\* and the empty frame
ShortA == <<254, 0, 0>>
ShortB == <<253>>
Empty == << >>

FullFrames == {FrameA235, FrameBm42, FrameX235, FaultA16364, FaultB99999,
               FaultX16352}
ShortFrames == {ShortA, ShortB, Empty}
Frames == FullFrames \cup ShortFrames

(***************************************************************************)
(* State after construction: obj as built at line 262, the empty queue of  *)
(* __init__.                                                               *)
(***************************************************************************)
Snapshot == [commands |-> commands, obj |-> obj, inflight |-> inflight,
             recent |-> recent, head_sent |-> head_sent]

Init ==
    /\ obj = [hw_connected |-> 0, status |-> "----",
              temperatureA |-> PyInt(0), temperatureB |-> PyInt(0)]
    /\ commands = << >>
    /\ inflight = 0
    /\ recent = << >>
    /\ head_sent = FALSE
    /\ last = [op |-> "init", bstring |-> << >>, sent |-> << >>,
               caught |-> "none", raised |-> "none",
               msg |-> "", result |-> PyNone,
               pre |-> [commands |-> << >>,
                        obj |-> [hw_connected |-> 0, status |-> "----",
                                 temperatureA |-> PyInt(0),
                                 temperatureB |-> PyInt(0)],
                        inflight |-> 0, recent |-> << >>,
                        head_sent |-> FALSE]]

\* history of the handler that just ran: its input, the frame it wrote to the
\* transport (<< >> when none), the exception @catch swallowed inside it, the
\* exception that escaped it, and the state it started from; Did records in
\* addition the message of the swallowed exception and the value the call
\* produced
Did(op, bstring, sent, caught, raised, msg, result) ==
    last' = [op |-> op, bstring |-> bstring, sent |-> sent,
             caught |-> caught, raised |-> raised,
             msg |-> msg, result |-> result, pre |-> Snapshot]

Ran(op, bstring, sent, caught, raised) ==
    Did(op, bstring, sent, caught, raised, "", PyNone)

(***************************************************************************)
(* connectionMade: clears the queue, calls the superclass (transport       *)
(* bookkeeping, no effect on obj or the queue), sets hw_connected.         *)
(***************************************************************************)
\* a connectionMade that leaves the queue as it finds it
connectionMade_keeps_queue ==
    /\ obj' = [obj EXCEPT !.hw_connected = 1]
    /\ UNCHANGED <<commands, inflight, recent, head_sent>>
    /\ Ran("connectionMade", << >>, << >>, "none", "none")

connectionMade ==
    /\ commands' = << >>
    /\ obj' = [obj EXCEPT !.hw_connected = 1]
    /\ head_sent' = FALSE
    /\ UNCHANGED <<inflight, recent>>
    /\ Ran("connectionMade", << >>, << >>, "none", "none")

(***************************************************************************)
(* connectionLost.  Line 176 calls super().connectionLost(self, reason):   *)
(* the bound method receives the instance a second time, so a superclass   *)
(* method declared connectionLost(self, reason) raises TypeError, which    *)
(* @catch swallows, and lines 177-180 never run.  The superclass is not    *)
(* part of this file, so both outcomes of the call are modelled.           *)
(***************************************************************************)
super_connectionLost == {"returns", "TypeError"}

connectionLost ==
    \E outcome \in super_connectionLost :
        /\ IF outcome = "returns"
           THEN obj' = [hw_connected |-> 0, status |-> "----",
                        temperatureA |-> PyStr("nan"),
                        temperatureB |-> PyStr("nan")]
           ELSE UNCHANGED obj
        /\ UNCHANGED <<commands, inflight, recent, head_sent>>
        /\ Ran("connectionLost", << >>, << >>,
               IF outcome = "returns" THEN "none" ELSE outcome, "none")

(***************************************************************************)
(* update, the periodic tick (the _debug printing left out).  Python's     *)
(* `len(self.commands) and obj["hw_connected"]` is true when the queue is  *)
(* non-empty and the flag is 1; every other case takes the else branch.    *)
(***************************************************************************)
\* a refill that appends only the first status command
Refill_first_only(queue) ==
    queue \o << Entry(status_commands[1]) >>

Refill(queue) ==
    queue \o [i \in 1..Len(status_commands) |-> Entry(status_commands[i])]

\* a tick whose refill branch goes on to send the new head when connected
update_refill_then_send ==
    IF Len(commands) > 0 /\ obj.hw_connected = 1
    THEN /\ inflight < MaxInFlight
         /\ inflight' = inflight + 1
         /\ recent' = commands[1].cmd
         /\ head_sent' = TRUE
         /\ UNCHANGED <<obj, commands>>
         /\ Ran("update", << >>, commands[1].cmd, "none", "none")
    ELSE /\ Len(commands) + Len(status_commands) <= MaxQueue
         /\ commands' = Refill(commands)
         /\ UNCHANGED obj
         /\ IF obj.hw_connected = 1 /\ inflight < MaxInFlight
            THEN /\ inflight' = inflight + 1
                 /\ recent' = Refill(commands)[1].cmd
                 /\ head_sent' = TRUE
                 /\ Ran("update", << >>, Refill(commands)[1].cmd, "none",
                        "none")
            ELSE /\ UNCHANGED <<inflight, recent, head_sent>>
                 /\ Ran("update", << >>, << >>, "none", "none")

\* a tick that sends only while more than one command is queued and tops the
\* queue up otherwise
update_tops_up ==
    IF Len(commands) > 1 /\ obj.hw_connected = 1
    THEN /\ inflight < MaxInFlight
         /\ inflight' = inflight + 1
         /\ recent' = commands[1].cmd
         /\ head_sent' = TRUE
         /\ UNCHANGED <<obj, commands>>
         /\ Ran("update", << >>, commands[1].cmd, "none", "none")
    ELSE /\ Len(commands) + Len(status_commands) <= MaxQueue
         /\ commands' = Refill(commands)
         /\ UNCHANGED <<obj, inflight, recent, head_sent>>
         /\ Ran("update", << >>, << >>, "none", "none")

update ==
    IF Len(commands) > 0 /\ obj.hw_connected = 1
    THEN /\ inflight < MaxInFlight
         /\ inflight' = inflight + 1
         /\ recent' = commands[1].cmd
         /\ head_sent' = TRUE
         /\ UNCHANGED <<obj, commands>>
         /\ Ran("update", << >>, commands[1].cmd, "none", "none")
    ELSE /\ Len(commands) + Len(status_commands) <= MaxQueue
         /\ commands' = Refill(commands)
         /\ UNCHANGED <<obj, inflight, recent, head_sent>>
         /\ Ran("update", << >>, << >>, "none", "none")

(***************************************************************************)
(* processBinary: one reply from the device.  Not decorated with @catch.   *)
(* temp_decode runs first (under @catch); self._bs[0] raises IndexError on *)
(* an empty reply; the match statement stores the result for address 254   *)
(* or 253; self.commands.pop(0) raises IndexError on an empty queue, after *)
(* the store.  A reply answers a frame that was sent (inflight > 0).       *)
(***************************************************************************)
\* a match statement whose two cases store into the other channel
Store_swapped(o, address, result) ==
    CASE address = 254 -> [o EXCEPT !.temperatureB = result]
      [] address = 253 -> [o EXCEPT !.temperatureA = result]
      [] OTHER -> o

\* a match statement that drops the connection flag when decoding failed
Store_disconnect_on_None(o, address, result) ==
    IF result = PyNone
    THEN [o EXCEPT !.hw_connected = 0]
    ELSE CASE address = 254 -> [o EXCEPT !.temperatureA = result]
           [] address = 253 -> [o EXCEPT !.temperatureB = result]
           [] OTHER -> o

Store(o, address, result) ==
    CASE address = 254 -> [o EXCEPT !.temperatureA = result]
      [] address = 253 -> [o EXCEPT !.temperatureB = result]
      [] OTHER -> o

processBinary ==
    \E bstring \in Frames :
        /\ inflight > 0
        /\ inflight' = inflight - 1
        /\ UNCHANGED recent
        /\ LET result == catch_temp_decode(bstring)
               caught == temp_decode(bstring).raised
               msg == temp_decode(bstring).msg
           IN  IF Len(bstring) = 0
               THEN /\ UNCHANGED <<obj, commands, head_sent>>
                    /\ Did("processBinary", bstring, << >>, caught,
                           "IndexError", msg, result)
               ELSE /\ obj' = Store(obj, bstring[1], result)
                    /\ IF Len(commands) = 0
                       THEN /\ UNCHANGED <<commands, head_sent>>
                            /\ Did("processBinary", bstring, << >>, caught,
                                   "IndexError", msg, result)
                       ELSE /\ commands' = Tail(commands)
                            /\ head_sent' = FALSE
                            /\ Did("processBinary", bstring, << >>, caught,
                                   "none", msg, result)

(***************************************************************************)
(* processMessage: one text reply from the device.  Under @catch: the      *)
(* IndexError of pop(0) on an empty queue is swallowed.  Like a binary     *)
(* reply, it answers a frame that was sent.                                *)
(***************************************************************************)
processMessage ==
    /\ inflight > 0
    /\ inflight' = inflight - 1
    /\ UNCHANGED <<obj, recent>>
    /\ IF Len(commands) = 0
       THEN /\ UNCHANGED <<commands, head_sent>>
            /\ Ran("processMessage", << >>, << >>, "IndexError", "none")
       ELSE /\ commands' = Tail(commands)
            /\ head_sent' = FALSE
            /\ Ran("processMessage", << >>, << >>, "none", "none")

Next ==
    \/ connectionMade
    \/ connectionLost
    \/ update
    \/ processBinary
    \/ processMessage

Spec == Init /\ [][Next]_vars

(***************************************************************************)
(* Vocabulary of the properties.                                           *)
(***************************************************************************)
\* number of channels: one status command per channel
N == Len(status_commands)

\* the reading of channel i in a snapshot of obj
Temperature(o, i) == IF i = 0 THEN o.temperatureA ELSE o.temperatureB

NaN == PyStr("nan")

Ticked == last.op = "update"
TickedConnected == Ticked /\ last.pre.obj.hw_connected = 1
Replied == last.op = "processBinary"
RepliedFull == Replied /\ Len(last.bstring) = binary_length
RepliedShort == Replied /\ Len(last.bstring) < binary_length
DecodedValue == RepliedFull /\ temp_decode(last.bstring).raised = "none"
DecodedFault == RepliedFull /\ temp_decode(last.bstring).raised = "GMHException"

TemperaturesKept ==
    \A i \in 0..(N - 1) : Temperature(obj, i) = Temperature(last.pre.obj, i)

\* C1: in every reachable state at most one sent frame is still waiting for
\* its reply to be processed.
C1_AtMostOneInFlight == obj.hw_connected = 1 => inflight <= 1

\* C2: a connected tick that finds the queue empty leaves exactly N entries,
\* the poll command of channel i (address 254 - i) at position i, in order;
\* hence after any connected tick the queue is not empty.
C2_RefillWhenEmpty ==
    TickedConnected =>
        /\ last.pre.commands = << >> =>
              /\ Len(commands) = N
              /\ \A i \in 0..(N - 1) :
                    /\ commands[i + 1].cmd = status_commands[i + 1]
                    /\ commands[i + 1].cmd[1] = 254 - i
        /\ commands # << >>

C2_Witness ==
    /\ TickedConnected
    /\ last.pre.commands = << >>
    /\ Len(commands) = N

\* C3: right after connectionLost, from any prior state, hw_connected is 0,
\* status is "----" and every channel temperature is the NaN sentinel.
C3_DisconnectResets ==
    last.op = "connectionLost" =>
        /\ obj.hw_connected = 0
        /\ obj.status = "----"
        /\ \A i \in 0..(N - 1) : Temperature(obj, i) = NaN

\* C4: right after connectionMade handled from the disconnected state,
\* hw_connected is 1 and status is "ok".
C4_ConnectSetsOk ==
    (last.op = "connectionMade" /\ last.pre.obj.hw_connected = 0) =>
        /\ obj.hw_connected = 1
        /\ obj.status = "ok"

\* C5: a tick while disconnected sends nothing and leaves the queue and obj
\* as they were.
C5_DisconnectedTickNoOp ==
    (Ticked /\ last.pre.obj.hw_connected = 0) =>
        /\ last.sent = << >>
        /\ commands = last.pre.commands
        /\ obj = last.pre.obj

\* C6 as stated: every connected tick sends exactly one frame, the queue head
\* or, when the queue was empty, the channel-0 poll frame after the refill.
C6_EveryConnectedTickSends ==
    TickedConnected =>
        last.sent = IF last.pre.commands # << >>
                    THEN last.pre.commands[1].cmd
                    ELSE <<254, 0, 61>>

\* C6 amended: a connected tick with a non-empty queue sends exactly the
\* queue head and leaves the queue alone; a connected tick with an empty
\* queue refills it, sends nothing in that tick, and leaves the channel-0
\* poll frame FE 00 3D at the head for the next tick to send.
C6_SendOrRefill ==
    TickedConnected =>
        IF last.pre.commands # << >>
        THEN /\ last.sent = last.pre.commands[1].cmd
             /\ commands = last.pre.commands
             /\ inflight = last.pre.inflight + 1
        ELSE /\ last.sent = << >>
             /\ inflight = last.pre.inflight
             /\ commands # << >>
             /\ commands[1].cmd = <<254, 0, 61>>

C6_Witness ==
    /\ TickedConnected
    /\ last.pre.commands = << >>
    /\ last.sent = << >>
    /\ commands[1].cmd = <<254, 0, 61>>

\* C7: a 9-byte reply that decodes to a value v and whose address byte is
\* 254 - i for a channel i stores v in temperature i and leaves the other
\* channels alone; an address of no channel changes no temperature; either
\* way the queue loses exactly its head (and stays empty if it had none).
C7_ValueStoredByAddress ==
    DecodedValue =>
        LET v == temp_decode(last.bstring).value
            address == last.bstring[1]
        IN  /\ \A i \in 0..(N - 1) :
                  Temperature(obj, i) =
                      IF address = 254 - i THEN v
                      ELSE Temperature(last.pre.obj, i)
            /\ v.kind = "float"
            /\ obj.hw_connected = last.pre.obj.hw_connected
            /\ commands = IF last.pre.commands = << >> THEN << >>
                          ELSE Tail(last.pre.commands)

C7_Witness ==
    /\ DecodedValue
    /\ last.bstring = FrameA235
    /\ last.pre.commands # << >>
    /\ commands = Tail(last.pre.commands)
    /\ last.pre.obj.temperatureA # PyFloat(235, 1)
    /\ obj.temperatureA = PyFloat(235, 1)
    /\ obj.temperatureB = last.pre.obj.temperatureB

\* C8: a reply that decodes to a device fault leaves every channel
\* temperature as it was, the addressed channel included.
C8_FaultKeepsTemperatures == DecodedFault => TemperaturesKept

\* C9: after a full 9-byte reply, status is the fault's message when the
\* reply decoded to a fault, and "ok" when it decoded to a value for a
\* registered channel.
C9_StatusFollowsReply ==
    /\ DecodedFault => obj.status = temp_decode(last.bstring).msg
    /\ (DecodedValue /\ last.bstring[1] \in {254 - i : i \in 0..(N - 1)}) =>
           obj.status = "ok"

\* C10: a reply shorter than 9 bytes (the empty reply included), handled
\* while the queue has a head, lets no error escape, writes no temperature
\* and pops the head.
C10_ShortReplyPopsQuietly ==
    (RepliedShort /\ last.pre.commands # << >>) =>
        /\ last.raised = "none"
        /\ TemperaturesKept
        /\ commands = Tail(last.pre.commands)

\* C11: hw_connected changes only in connectionMade and connectionLost: a
\* tick or a reply (value, fault, short or text) leaves the flag as it was,
\* so none of them turns it from 1 to 0.
C11_OnlyTransportChangesConnected ==
    last.op \in {"update", "processBinary", "processMessage"} =>
        obj.hw_connected = last.pre.obj.hw_connected

C11_Witness ==
    /\ Replied
    /\ last.caught = "GMHException"
    /\ last.pre.obj.hw_connected = 1
    /\ obj.hw_connected = 1

(***************************************************************************)
(* The polling cycle on a link that stays up: one connectionMade, then     *)
(* ticks and full 9-byte replies only.  The tick is a periodic timer and   *)
(* the device answers every frame it receives, so a tick that stays        *)
(* possible happens and a reply that stays due is delivered.               *)
(***************************************************************************)
connect_once == obj.hw_connected = 0 /\ connectionMade

reply_full == processBinary /\ Len(last'.bstring) = binary_length

LiveNext ==
    \/ connect_once
    \/ update
    \/ reply_full

LiveSpec ==
    /\ Init
    /\ [][LiveNext]_vars
    /\ WF_vars(connect_once)
    /\ WF_vars(update)
    /\ WF_vars(reply_full)

\* C12: on a link that stays up, with ticks recurring and one 9-byte reply per
\* sent frame, the queue is drained and refilled again and again and the poll
\* frame of every channel is sent again and again.
C12_PollingNeverStalls ==
    /\ []<>(commands = << >>)
    /\ []<>(Ticked /\ last.pre.commands = << >> /\ commands # << >>)
    /\ \A i \in 0..(N - 1) :
          []<>(Ticked /\ last.sent = status_commands[i + 1])

(***************************************************************************)
(* The codec on its own: crc and temp_decode (both under @catch) called    *)
(* on inputs drawn from bounded sets; the protocol state stays as          *)
(* constructed.  last holds the arguments, the swallowed exception with    *)
(* its message, and the value the call returned.  Both functions are pure, *)
(* so a behaviour makes one call on the constructed object.                *)
(***************************************************************************)
CrcData == {0, 1, 255}

call_crc ==
    \E byte1 \in 0..255, byte2 \in CrcData :
        /\ last.op = "init"
        /\ Did("crc", <<byte1, byte2>>, << >>, "none", "none", "",
               PyInt(crc(byte1, byte2)))
        /\ UNCHANGED <<obj, commands, inflight, recent, head_sent>>

\* the 9-byte reply that carries a 27-bit payload and an exponent the way
\* temp_decode reads them: byte 3 is the complement of (exponent + 15) << 3
\* | payload bits 24..26, byte 4 is payload bits 16..23, byte 6 the
\* complement of bits 8..15, byte 7 bits 0..7
Encode(address, payload, exponent) ==
    << address, 0, 0,
       255 - (((exponent + 15) * 8) + (payload \div 16777216)),
       (payload \div 65536) % 256,
       0,
       255 - ((payload \div 256) % 256),
       payload % 256,
       0 >>

\* payloads around every boundary of the decoding, and a spread over the
\* 27-bit range
Payloads ==
    {0, 1, 5, 33554431, 33554432, 67108863, 67108864, 67108865, 100663254,
     100663295, 100663296, 100663297, 100663531, 125554431, 125554432,
     125554433, 133554431, 133554432, 133570784, 133570796, 133654431,
     134217727}
    \cup {(i * 4194304) + 12345 : i \in 0..31}

Exponents == {-15, 0, 1, 16}

DecodeInputs ==
    {Encode(254, p, e) : p \in Payloads, e \in Exponents} \cup Frames

call_temp_decode ==
    \E response \in DecodeInputs :
        /\ last.op = "init"
        /\ Did("temp_decode", response, << >>, temp_decode(response).raised,
               "none", temp_decode(response).msg,
               catch_temp_decode(response))
        /\ UNCHANGED <<obj, commands, inflight, recent, head_sent>>

CodecNext ==
    \/ call_crc
    \/ call_temp_decode

CodecSpec == Init /\ [][CodecNext]_vars

CalledCrc == last.op = "crc"

\* C13: the poll frame of every channel i is [254 - i, 0, crc(254 - i, 0)]
\* with crc the 16-round shift / xor-0x0700 function: crc(254, 0) is 0x3D and
\* crc(253, 0) is 0x02, the third bytes of the hard-coded status commands.
C13_StatusCommandsCarryCrc ==
    /\ (CalledCrc /\ last.bstring = <<254, 0>>) => last.result = PyInt(61)
    /\ (CalledCrc /\ last.bstring = <<253, 0>>) => last.result = PyInt(2)
    /\ \A i \in 0..(N - 1) :
          (CalledCrc /\ last.bstring = <<254 - i, 0>>) =>
              /\ Len(status_commands[i + 1]) = 3
              /\ status_commands[i + 1][1] = 254 - i
              /\ status_commands[i + 1][2] = 0
              /\ PyInt(status_commands[i + 1][3]) = last.result
    /\ CalledCrc => (last.result.mant \in 0..255)

C13_Witness ==
    /\ CalledCrc
    /\ last.bstring = <<253, 0>>
    /\ last.result = PyInt(status_commands[2][3])

\* the fault code temp_decode computes from a 9-byte reply
FaultCode(response) == payload_of(response) - 33554432 - 100000000

CatalogCodes == {16352, 16353, 16362, 16363, 16364, 16365}

CalledDecode == last.op = "temp_decode" /\ Len(last.bstring) = binary_length

\* the payload is below the fault threshold of temp_decode
BelowThreshold == payload_of(last.bstring) < 125554432

SignBitSet == (payload_of(last.bstring) \div 67108864) % 2 = 1

\* C15 as stated: below the fault threshold the mantissa is negative exactly
\* when payload & 0x04000000 is set, and positive otherwise.
C15_SignFollowsSignBit ==
    (CalledDecode /\ BelowThreshold) =>
        /\ last.result.kind = "float"
        /\ (last.result.mant < 0) <=> SignBitSet
        /\ ~SignBitSet => last.result.mant > 0

\* C15 amended: below the fault threshold the mantissa is payload +
\* 0x02000000 when payload & 0x04000000 is clear and payload - 0x06000000
\* when it is set; it is negative exactly when the bit is set and
\* payload < 0x06000000 (bit 0x02000000 clear), zero at payload = 0x06000000,
\* and positive otherwise.
C15_SignOfMantissa ==
    (CalledDecode /\ BelowThreshold) =>
        LET payload == payload_of(last.bstring)
            mant == last.result.mant
        IN  /\ last.result.kind = "float"
            /\ last.caught = "none"
            /\ mant = IF SignBitSet THEN payload - 100663296
                      ELSE payload + 33554432
            /\ (mant < 0) <=> (SignBitSet /\ payload < 100663296)
            /\ (mant = 0) <=> (payload = 100663296)
            /\ ~SignBitSet => mant > 0

C15_Witness ==
    /\ CalledDecode
    /\ BelowThreshold
    /\ SignBitSet
    /\ payload_of(last.bstring) = 100663531
    /\ last.result = PyFloat(235, 1)

\* processBinary ran to its last line and removed the head of the queue
Popped == Replied /\ last.raised = "none"

\* C16: whenever processBinary pops a command, that command has been sent at
\* least once since it was enqueued and its frame is the most recently sent
\* frame.
C16_PoppedWasSent ==
    Popped =>
        /\ last.pre.head_sent
        /\ last.pre.recent = last.pre.commands[1].cmd

\* C17: a reply (a full 9-byte frame, or a text line) handled while the
\* queue is empty is ignored: no error escapes, and the queue and obj stay
\* as they were.
C17_ReplyOnEmptyQueueIgnored ==
    ((RepliedFull \/ last.op = "processMessage")
        /\ last.pre.commands = << >>) =>
        /\ last.raised = "none"
        /\ commands = << >>
        /\ obj = last.pre.obj

\* C18: connectionMade empties the queue whatever it held, so every frame
\* sent afterwards comes from a queue that a refill of the empty queue built
\* (at most N entries), and a refill of the empty queue yields exactly the N
\* poll commands.
C18_ConnectClearsQueue ==
    /\ last.op = "connectionMade" =>
          /\ commands = << >>
          /\ ~head_sent
    /\ last.sent # << >> =>
          /\ Len(last.pre.commands) <= N
          /\ last.pre.obj.hw_connected = 1
    /\ (TickedConnected /\ last.pre.commands = << >>) =>
          commands = << Entry(<<254, 0, 61>>), Entry(<<253, 0, 2>>) >>

C18_Witness ==
    /\ last.op = "connectionMade"
    /\ Len(last.pre.commands) > N
    /\ commands = << >>

\* C19: whenever temp_decode classifies a frame as a fault (payload >=
\* 125554432), the fault code payload - 0x02000000 - 100000000 is not
\* negative.
C19_FaultCodeNonNegative ==
    (CalledDecode /\ last.caught = "GMHException") =>
        FaultCode(last.bstring) >= 0

\* C20: while hw_connected is 1 the queue holds at most N commands and is a
\* suffix of the poll sequence (channel order kept, no duplicates), and a
\* connected tick appends only to an empty queue.
C20_ConnectedQueueIsSuffix ==
    /\ obj.hw_connected = 1 =>
          /\ Len(commands) <= N
          /\ \A k \in 1..Len(commands) :
                commands[k] = Entry(status_commands[N - Len(commands) + k])
    /\ (TickedConnected /\ commands # last.pre.commands) =>
          last.pre.commands = << >>

C20_Witness ==
    /\ obj.hw_connected = 1
    /\ Replied
    /\ Len(last.pre.commands) = N
    /\ commands = << Entry(<<253, 0, 2>>) >>

====
